---- MODULE Spec2Model ----
(***************************************************************************)
(* A model of VideoSizeClipper (src/app.py): the time parser/formatter,    *)
(* the bitrate allocator, the downscale advisor, the two-pass command      *)
(* builder and the export handler VideoClipperApp.on_export.               *)
(*                                                                         *)
(* Numbers.  Python floats are modelled by exact rationals on fixed grids: *)
(* times and clip lengths are integers in milliseconds, sizes are integers *)
(* in thousandths of a megabyte, frame rates are pairs <<num, den>>.       *)
(* Text is a sequence of one-character strings, so that formatting and     *)
(* parsing are computed digit by digit.                                    *)
(***************************************************************************)
EXTENDS Integers, Sequences, FiniteSets, TLC

VARIABLES
    t_value,      \* time spec: the float handed to format_seconds_to_time (ms)
    t_text,       \* time spec: the text it produced
    t_parsed,     \* time spec: what parse_time_to_seconds made of that text
    a_in,         \* allocator spec: arguments of compute_target_bitrates
    a_out,        \* allocator spec: its return value
    s_in,         \* advisor spec: arguments of choose_scaling_for_bitrate
    s_out,        \* advisor spec: its return values at the two bitrates
    src_exists,   \* Path(src_path_var).exists()
    tools_on_path,\* ffmpeg and ffprobe are found once ensure_ff_tools_on_path has run
    os_name,      \* os.name
    start_var,    \* the Start entry
    end_var,      \* the End entry
    size_mb_var,  \* the Target Size entry
    video_duration_s, \* self.video_duration_s
    pc,           \* where on_export stands: idle, blocked in a run_command, or done
    loc,          \* on_export's local variables
    spawned,      \* the commands the current on_export has handed to run_command
    dialogs,      \* the message boxes the current on_export has shown
    status_var,   \* the status line
    files         \* the files in the Downloads folder

pureVars == <<t_value, t_text, t_parsed, a_in, a_out, s_in, s_out>>
fieldVars == <<src_exists, start_var, end_var, size_mb_var, video_duration_s>>
envVars == <<tools_on_path, os_name>>
runVars == <<pc, loc, spawned, dialogs, status_var, files>>
appVars == <<fieldVars, envVars, runVars>>
vars == <<pureVars, appVars>>

\* Optional[...]: None is the empty sequence, a value v is <<v>>
None == <<>>
Some(v) == <<v>>

\* the outcome of a conversion that may raise: a value, or ValueError
Ok(v) == [ok |-> TRUE, v |-> v]
ValueError == [ok |-> FALSE, v |-> 0]

Max(a, b) == IF a >= b THEN a ELSE b
Min(a, b) == IF a <= b THEN a ELSE b
Abs(x) == IF x < 0 THEN 0 - x ELSE x

(***************************************************************************)
(* Text                                                                    *)
(***************************************************************************)
Digits == {"0", "1", "2", "3", "4", "5", "6", "7", "8", "9"}

DigitChar(d) == <<"0", "1", "2", "3", "4", "5", "6", "7", "8", "9">>[d + 1]

DigitVal(c) == CHOOSE d \in 0..9 : DigitChar(d) = c

\* str.strip(): drop leading and trailing blanks
RECURSIVE LStrip(_)
LStrip(s) == IF s # <<>> /\ Head(s) = " " THEN LStrip(Tail(s)) ELSE s

RECURSIVE RStrip(_)
RStrip(s) == IF s # <<>> /\ s[Len(s)] = " " THEN RStrip(SubSeq(s, 1, Len(s) - 1)) ELSE s

Strip(s) == RStrip(LStrip(s))

\* str.split(":"): the parts between the colons, empty parts included
RECURSIVE SplitColon(_, _)
SplitColon(s, cur) ==
    IF s = <<>> THEN <<cur>>
    ELSE IF Head(s) = ":" THEN <<cur>> \o SplitColon(Tail(s), <<>>)
    ELSE SplitColon(Tail(s), Append(cur, Head(s)))

\* the decimal digits of a natural number, most significant first
RECURSIVE DecDigits(_)
DecDigits(n) == IF n < 10 THEN <<DigitChar(n)>> ELSE Append(DecDigits(n \div 10), DigitChar(n % 10))

\* the natural number written by a sequence of digits
RECURSIVE DecValue(_)
DecValue(ds) == IF ds = <<>> THEN 0 ELSE 10 * DecValue(SubSeq(ds, 1, Len(ds) - 1)) + DigitVal(ds[Len(ds)])

\* format spec 02d
Pad2(n) == IF n < 10 THEN <<"0">> \o DecDigits(n) ELSE DecDigits(n)

\* three decimals of a millisecond count
Pad3(n) == <<DigitChar(n \div 100), DigitChar((n \div 10) % 10), DigitChar(n % 10)>>

\* format spec 06.3f of a value given in ms: two integer digits at least, a point, three decimals
Fmt063f(ms) == Pad2(ms \div 1000) \o <<".">> \o Pad3(ms % 1000)

\* float(text) restricted to unsigned decimal numerals with at most three
\* decimals; the result in thousandths, or ValueError as Python raises it
PyFloat(text) ==
    LET s == Strip(text)
        dots == {i \in 1..Len(s) : s[i] = "."}
        ok == /\ \A i \in 1..Len(s) : s[i] \in Digits \cup {"."}
              /\ Cardinality(dots) <= 1
              /\ \E i \in 1..Len(s) : s[i] \in Digits
              /\ \A i \in dots : Len(s) - i <= 3
    IN IF ~ok THEN ValueError
       ELSE IF dots = {} THEN Ok(1000 * DecValue(s))
       ELSE LET p == CHOOSE i \in dots : TRUE
                ip == SubSeq(s, 1, p - 1)
                fp == SubSeq(s, p + 1, Len(s))
                scale == IF Len(fp) = 0 THEN 0 ELSE IF Len(fp) = 1 THEN 100 ELSE IF Len(fp) = 2 THEN 10 ELSE 1
            IN Ok(1000 * DecValue(ip) + scale * DecValue(fp))

ParseH3(parts) ==
    LET h == PyFloat(parts[1])
        m == PyFloat(parts[2])
        s == PyFloat(parts[3])
    IN IF h.ok /\ m.ok /\ s.ok THEN Ok(h.v * 3600 + m.v * 60 + s.v) ELSE ValueError

ParseM2(parts) ==
    LET m == PyFloat(parts[1])
        s == PyFloat(parts[2])
    IN IF m.ok /\ s.ok THEN Ok(m.v * 60 + s.v) ELSE ValueError

\* the result in ms (float seconds times 1000), or ValueError
parse_time_to_seconds(text) ==
    LET value == Strip(text)
    IN IF value = <<>> THEN Ok(0)
       ELSE IF \E i \in 1..Len(value) : value[i] = ":"
            THEN LET parts == SplitColon(value, <<>>)
                 IN IF Len(parts) = 3 THEN ParseH3(parts)
                    ELSE IF Len(parts) = 2 THEN ParseM2(parts)
                    ELSE ValueError
            ELSE PyFloat(value)

\* format_seconds_to_time with the minutes taken from the whole value
format_seconds_to_time_total_minutes(v) ==
    LET value == IF v < 0 THEN 0 ELSE v
        hours == value \div 3600000
        minutes == value \div 60000
        seconds == value % 60000
    IN IF hours > 0
       THEN Pad2(hours) \o <<":">> \o Pad2(minutes) \o <<":">> \o Fmt063f(seconds)
       ELSE Pad2(minutes) \o <<":">> \o Fmt063f(seconds)

format_seconds_to_time(v) ==
    LET value == IF v < 0 THEN 0 ELSE v
        hours == value \div 3600000
        minutes == (value % 3600000) \div 60000
        seconds == value % 60000
    IN IF hours > 0
       THEN Pad2(hours) \o <<":">> \o Pad2(minutes) \o <<":">> \o Fmt063f(seconds)
       ELSE Pad2(minutes) \o <<":">> \o Fmt063f(seconds)

(***************************************************************************)
(* Float arithmetic                                                        *)
(*                                                                         *)
(* A non-negative float is a record [i |-> its integer part, f |-> TRUE    *)
(* iff it has a fractional part].  That is all the allocator's             *)
(* comparisons with integers and its int(x / d) need, and it keeps every   *)
(* intermediate value inside TLC's 32-bit integers.                        *)
(***************************************************************************)
Whole(n) == [i |-> n, f |-> FALSE]

\* max(x, n) and min(x, n) of a float x and an integer n
FMax(x, n) == IF x.i >= n THEN x ELSE Whole(n)
FMin(x, n) == IF x.i >= n THEN Whole(n) ELSE x

\* x - n
FSub(x, n) == [i |-> x.i - n, f |-> x.f]

\* x * 0.1
FTenth(x) == [i |-> x.i \div 10, f |-> x.f \/ x.i % 10 # 0]

\* int(x / d) rounded up instead of truncated
PyCeilQuot(x, d, ulp) == IF x.f \/ x.i % d # 0 THEN x.i \div d + 1 ELSE x.i \div d

\* round(x / d) in place of int(x / d)
PyRoundQuot(x, d, ulp) == (2 * x.i + d) \div (2 * d)

\* int(x / d) for an integer d > 0.  When the exact quotient is an integer q
\* the double division may land one ulp under q, and int() then returns
\* q - 1 (160 * 1000 * 0.7 / 1000 / 0.7 = 159.99999999999997): ulp = 1 is
\* that outcome, ulp = 0 the exact one.
PyIntQuot(x, d, ulp) ==
    IF ~x.f /\ x.i % d = 0 /\ ulp = 1 THEN x.i \div d - 1 ELSE x.i \div d

\* floor(a * b / c) for naturals, computed without forming a * b
MulDivFloor(a, b, c) == (a \div c) * b + ((a % c) * b) \div c

\* the least integer >= a / b, for naturals
CeilDiv(a, b) == (a + b - 1) \div b

\* the largest n in lo..hi with n * n <= m, by bisection (lo * lo <= m)
RECURSIVE SqrtBetween(_, _, _)
SqrtBetween(m, lo, hi) ==
    IF lo = hi THEN lo
    ELSE LET mid == (lo + hi + 1) \div 2
         IN IF mid * mid <= m THEN SqrtBetween(m, mid, hi) ELSE SqrtBetween(m, lo, mid - 1)

\* floor(sqrt(m)) for 0 <= m < (bound + 1)^2
ISqrt(m, bound) == SqrtBetween(m, 0, bound)

(***************************************************************************)
(* Bitrate allocator                                                       *)
(***************************************************************************)
\* target_size_mb * 1024 * 1024 * 8 * 0.98 for a size of mb_milli / 1000 MB:
\* 8388608 * 0.98 / 1000 = 8220 + 2612 / 3125 bits per thousandth of a MB
TargetBits(mb_milli) ==
    [i |-> mb_milli * 8220 + (mb_milli * 2612) \div 3125, f |-> (mb_milli * 2612) % 3125 # 0]

\* kbps * 1000 * clip_seconds, in bits, for a clip of clip_ms milliseconds
BitsAt(kbps, clip_ms) == kbps * clip_ms

\* compute_target_bitrates without the clamp of audio_kbps
compute_target_bitrates_unclamped(clip_ms, mb_milli, min_audio_kbps, max_audio_kbps, ulp_a, ulp_v) ==
    LET target_bits == TargetBits(mb_milli)
        audio_bits_guess == FMax(FMin(FTenth(target_bits), BitsAt(max_audio_kbps, clip_ms)),
                                 BitsAt(min_audio_kbps, clip_ms))
        audio_kbps == PyIntQuot(audio_bits_guess, clip_ms, ulp_a)
        video_bits_available == FMax(FSub(target_bits, BitsAt(audio_kbps, clip_ms)), 1000 * 1000)
        video_kbps == Max(PyIntQuot(video_bits_available, clip_ms, ulp_v), 100)
    IN <<video_kbps, audio_kbps>>

\* returns <<video_kbps, audio_kbps>>; ulp_a and ulp_v are the rounding
\* outcomes of the two float divisions (see PyIntQuot)
compute_target_bitrates(clip_ms, mb_milli, min_audio_kbps, max_audio_kbps, ulp_a, ulp_v) ==
    LET target_bits == TargetBits(mb_milli)
        audio_bits_guess == FMax(FMin(FTenth(target_bits), BitsAt(max_audio_kbps, clip_ms)),
                                 BitsAt(min_audio_kbps, clip_ms))
        audio_kbps == Max(Min(PyIntQuot(audio_bits_guess, clip_ms, ulp_a), max_audio_kbps), min_audio_kbps)
        video_bits_available == FMax(FSub(target_bits, BitsAt(audio_kbps, clip_ms)), 1000 * 1000)
        video_kbps == Max(PyIntQuot(video_bits_available, clip_ms, ulp_v), 100)
    IN <<video_kbps, audio_kbps>>

(***************************************************************************)
(* Downscale advisor                                                       *)
(***************************************************************************)
\* int(dim * scale_factor), without the rounding down to an even number
ScaledAny(dim, other, num, den, video_kbps) ==
    LET a == dim * video_kbps * den
        c == 3 * other * num
    IN ISqrt(4 * MulDivFloor(a, 12500, c) + (4 * (((a % c) * 12500) % c)) \div c, dim)

\* int((dim * scale_factor) // 2 * 2) with scale_factor = sqrt(bits_per_pixel / 0.06)
\* and bits_per_pixel = video_kbps * 1000 * den / (width * height * num):
\* twice the largest n with (2n)^2 <= dim^2 * bits_per_pixel / 0.06, that is
\* n^2 <= dim * video_kbps * den * 12500 / (3 * other * num)
ScaledEven(dim, other, num, den, video_kbps) ==
    2 * ISqrt(MulDivFloor(dim * video_kbps * den, 12500, 3 * other * num), dim)

\* bits_per_pixel >= min_bpp, with min_bpp = 0.06: video_kbps * 1000 * den * 100 >=
\* 6 * width * height * num, divided through by 2 * 50000
MeetsMinBpp(width, height, num, den, video_kbps) ==
    video_kbps * den >= CeilDiv(3 * width * height * num, 50000)

\* choose_scaling_dims that gives no plan when a dimension was raised to 160
choose_scaling_dims_above_floor(width, height, fps, video_kbps) ==
    IF width = None \/ height = None \/ fps = None THEN None
    ELSE LET w == width[1]
             h == height[1]
             num == fps[1][1]
             den == fps[1][2]
         IN IF w = 0 \/ h = 0 \/ num = 0 \/ num < 0 THEN None
            ELSE IF MeetsMinBpp(w, h, num, den, video_kbps) THEN None
            ELSE LET new_w == Max(160, ScaledEven(w, h, num, den, video_kbps))
                     new_h == Max(160, ScaledEven(h, w, num, den, video_kbps))
                 IN IF 160 < new_w /\ new_w < w /\ 160 < new_h /\ new_h < h
                    THEN Some(<<new_w, new_h>>) ELSE None

\* width, height: None or <<int>>; fps: None or <<<<num, den>>>> with den > 0.
\* Returns None or <<<<new_w, new_h>>>>, the two numbers of the scale filter.
choose_scaling_dims(width, height, fps, video_kbps) ==
    IF width = None \/ height = None \/ fps = None THEN None
    ELSE LET w == width[1]
             h == height[1]
             num == fps[1][1]
             den == fps[1][2]
         IN IF w = 0 \/ h = 0 \/ num = 0 \/ num < 0 THEN None
            ELSE IF MeetsMinBpp(w, h, num, den, video_kbps) THEN None
            ELSE LET new_w == Max(160, ScaledEven(w, h, num, den, video_kbps))
                     new_h == Max(160, ScaledEven(h, w, num, den, video_kbps))
                 IN IF new_w < w /\ new_h < h THEN Some(<<new_w, new_h>>) ELSE None

\* the filter string, None or <<"scale=W:H:flags=lanczos">>
choose_scaling_for_bitrate(width, height, fps, video_kbps) ==
    LET d == choose_scaling_dims(width, height, fps, video_kbps)
    IN IF d = None THEN None
       ELSE Some("scale=" \o ToString(d[1][1]) \o ":" \o ToString(d[1][2]) \o ":flags=lanczos")

(***************************************************************************)
(* Paths, commands and the external tools                                  *)
(***************************************************************************)
\* a pathlib.Path: directory, stem and final suffix
PathStr(p) == p.dir \o p.stem \o p.suffix
PathName(p) == p.stem \o p.suffix
with_suffix(p, ext) == [p EXCEPT !.suffix = ext]

\* the source file the Browse dialog or a drop selects
SrcPath == [dir |-> "Videos/", stem |-> "clip", suffix |-> ".mp4"]

\* format spec .3f of a value in thousandths
Fmt3f(ms) ==
    ToString(ms \div 1000) \o "." \o ToString((ms % 1000) \div 100)
        \o ToString((ms \div 10) % 10) \o ToString(ms % 10)

FfprobeDurationCmd(video_path) ==
    <<"ffprobe", "-v", "error", "-select_streams", "v:0", "-show_entries", "format=duration",
      "-of", "json", PathStr(video_path)>>

FfprobeStreamCmd(video_path) ==
    <<"ffprobe", "-v", "error", "-select_streams", "v:0", "-show_entries",
      "stream=width,height,avg_frame_rate", "-of", "json", PathStr(video_path)>>

\* what ffprobe may answer to FfprobeDurationCmd: an exit code and, when the
\* output is a JSON document, its format.duration in ms (0 when the key is missing)
DurationOutputs ==
    { [code |-> 1, parses |-> FALSE, duration |-> 0],
      [code |-> 0, parses |-> FALSE, duration |-> 0],
      [code |-> 0, parses |-> TRUE, duration |-> 0],
      [code |-> 0, parses |-> TRUE, duration |-> 60000] }

ffprobe_duration_seconds(res) ==
    IF res.code # 0 THEN None
    ELSE IF ~res.parses THEN None
    ELSE IF res.duration > 0 THEN Some(res.duration) ELSE None

\* what ffprobe may answer to FfprobeStreamCmd: width and height (0 when
\* missing) and avg_frame_rate as <<num, den>>, or None when it has no "/"
StreamOutputs ==
    { [code |-> 1, parses |-> FALSE, width |-> 0, height |-> 0, fr |-> None],
      [code |-> 0, parses |-> FALSE, width |-> 0, height |-> 0, fr |-> None],
      [code |-> 0, parses |-> TRUE, width |-> 0, height |-> 0, fr |-> Some(<<0, 0>>)],
      [code |-> 0, parses |-> TRUE, width |-> 1920, height |-> 1080, fr |-> Some(<<30, 1>>)],
      [code |-> 0, parses |-> TRUE, width |-> 320, height |-> 240, fr |-> None] }

\* returns <<width, height, fps>>, each None or <<value>>
ffprobe_resolution_fps(res) ==
    IF res.code # 0 THEN <<None, None, None>>
    ELSE IF ~res.parses THEN <<None, None, None>>
    ELSE LET width == IF res.width = 0 THEN None ELSE Some(res.width)
             height == IF res.height = 0 THEN None ELSE Some(res.height)
             fps == IF res.fr = None THEN None
                    ELSE IF res.fr[1][2] # 0 THEN Some(res.fr[1]) ELSE None
         IN <<width, height, fps>>

\* build_two_pass_commands that leaves -ss out when the start is 0
build_two_pass_commands_positive_ss(src, dst, ss, duration, video_kbps, audio_kbps, scale_filter) ==
    LET vf == IF scale_filter # None THEN <<"-vf", scale_filter[1]>> ELSE <<>>
        range_ss == IF ss # None /\ ss[1] > 0 THEN <<"-ss", Fmt3f(ss[1])>> ELSE <<>>
        range_t == IF duration # None THEN <<"-t", Fmt3f(duration[1])>> ELSE <<>>
        range_args == range_ss \o range_t
        logfile == PathStr(with_suffix(dst, ".log"))
        pass1 == <<"ffmpeg", "-y">> \o range_args \o <<"-i", PathStr(src)>> \o vf
                 \o <<"-c:v", "libx264", "-b:v", ToString(video_kbps) \o "k", "-pass", "1",
                      "-preset", "medium", "-pix_fmt", "yuv420p", "-an", "-f", "mp4",
                      "-passlogfile", logfile,
                      IF os_name = "nt" THEN "NUL" ELSE "/dev/null">>
        pass2 == <<"ffmpeg", "-y">> \o range_args \o <<"-i", PathStr(src)>> \o vf
                 \o <<"-c:v", "libx264", "-b:v", ToString(video_kbps) \o "k", "-pass", "2",
                      "-preset", "medium", "-pix_fmt", "yuv420p", "-c:a", "aac",
                      "-b:a", ToString(audio_kbps) \o "k", "-movflags", "+faststart",
                      "-passlogfile", logfile, PathStr(dst)>>
    IN <<pass1, pass2>>

\* ss, duration, scale_filter: None or <<value>>; returns <<pass1, pass2>>
build_two_pass_commands(src, dst, ss, duration, video_kbps, audio_kbps, scale_filter) ==
    LET vf == IF scale_filter # None THEN <<"-vf", scale_filter[1]>> ELSE <<>>
        range_ss == IF ss # None THEN <<"-ss", Fmt3f(ss[1])>> ELSE <<>>
        range_t == IF duration # None THEN <<"-t", Fmt3f(duration[1])>> ELSE <<>>
        range_args == range_ss \o range_t
        logfile == PathStr(with_suffix(dst, ".log"))
        pass1 == <<"ffmpeg", "-y">> \o range_args \o <<"-i", PathStr(src)>> \o vf
                 \o <<"-c:v", "libx264", "-b:v", ToString(video_kbps) \o "k", "-pass", "1",
                      "-preset", "medium", "-pix_fmt", "yuv420p", "-an", "-f", "mp4",
                      "-passlogfile", logfile,
                      IF os_name = "nt" THEN "NUL" ELSE "/dev/null">>
        pass2 == <<"ffmpeg", "-y">> \o range_args \o <<"-i", PathStr(src)>> \o vf
                 \o <<"-c:v", "libx264", "-b:v", ToString(video_kbps) \o "k", "-pass", "2",
                      "-preset", "medium", "-pix_fmt", "yuv420p", "-c:a", "aac",
                      "-b:a", ToString(audio_kbps) \o "k", "-movflags", "+faststart",
                      "-passlogfile", logfile, PathStr(dst)>>
    IN <<pass1, pass2>>

\* the insertion with the test on audio_kbps left out
InsertMonoAlways(pass2, audio_kbps) ==
    SubSeq(pass2, 1, Len(pass2) - 1) \o <<"-ac", "1">> \o <<pass2[Len(pass2)]>>

\* on_export's edit of pass2: '-ac', '1' before the output path when audio_kbps <= 64
InsertMono(pass2, audio_kbps) ==
    IF audio_kbps <= 64
    THEN SubSeq(pass2, 1, Len(pass2) - 1) \o <<"-ac", "1">> \o <<pass2[Len(pass2)]>>
    ELSE pass2

\* the value that follows an option in an argument list
OptionValue(cmd, opt) == cmd[(CHOOSE i \in 1..Len(cmd) - 1 : cmd[i] = opt) + 1]

\* ffmpeg takes -passlogfile as a prefix: the encoder's statistics go to
\* PREFIX-0.log and libx264's macroblock tree to PREFIX-0.log.mbtree
FfmpegStatsFiles(cmd) ==
    { OptionValue(cmd, "-passlogfile") \o "-0.log",
      OptionValue(cmd, "-passlogfile") \o "-0.log.mbtree" }

\* the last argument of an ffmpeg command is its output
FfmpegOutput(cmd) == cmd[Len(cmd)]

\* int(target_mb * 1024 * 1024)
TargetBytes(mb_milli) == MulDivFloor(1048576, mb_milli, 1000)

\* abs(final_size - target_bytes) / max(target_bytes, 1) >= 0.08
SizeDeviatesOrEqual(final_size, target_bytes) ==
    25 * Abs(final_size - target_bytes) >= 2 * Max(target_bytes, 1)

\* abs(final_size - target_bytes) / max(target_bytes, 1) > 0.08
SizeDeviates(final_size, target_bytes) ==
    25 * Abs(final_size - target_bytes) > 2 * Max(target_bytes, 1)

\* the sizes the encoder may leave the output at, around a target
FinalSizeSamples(t) ==
    { 0, t - t \div 5, t - (2 * t) \div 25 - 1, t - (2 * t) \div 25, t,
      t + (2 * t) \div 25, t + (2 * t) \div 25 + 1, t + t \div 5 }

ExitCodes == {0, 1}

(***************************************************************************)
(* The application                                                         *)
(***************************************************************************)
StartTexts == { <<"0">>, <<>>, <<" ", "5">>, <<"a">>, <<"1", ":", "0", "0">> }
EndTexts == { <<>>, <<"3">>, <<"1", "0">>, <<"1", ":">>, <<"2", ":", "0", "8">>, <<"1", ":", "2", ":", "3", ":", "4">> }
SizeTexts == { <<"1", "0">>, <<"2", "5">>, <<"0", ".", "5">>, <<"0">>, <<"a", "b", "c">>, <<>> }

\* on_export's locals before any of them is assigned
LocInit ==
    [start_s |-> 0, end_s |-> None, target_mb |-> 0, clip_seconds |-> None,
     video_kbps |-> 0, audio_kbps |-> 0, scale_filter |-> None, dst |-> None,
     pass1 |-> <<>>, pass2 |-> <<>>, code1 |-> None, code2 |-> None, final_size |-> None]

\* the state __init__ leaves: Start "0", End empty, Target Size "10", no
\* source chosen (Path("") is the current directory, which exists)
AppConstructed ==
    /\ src_exists = TRUE
    /\ start_var = <<"0">>
    /\ end_var = <<>>
    /\ size_mb_var = <<"1", "0">>
    /\ video_duration_s = None
    /\ pc = "idle"
    /\ loc = LocInit
    /\ spawned = <<>>
    /\ dialogs = <<>>
    /\ status_var = "Click Browse to select an MP4..."
    /\ files = {}

AppQuiet == AppConstructed /\ tools_on_path = TRUE /\ os_name = "posix"

\* the pure-function specifications' variables when they are not in use
NoAlloc == [clip_ms |-> 0]
NoScale == [width |-> None]

TimeIdle == t_value = 0 /\ t_text = <<>> /\ t_parsed = None
AllocIdle == a_in = NoAlloc /\ a_out = None
ScaleIdle == s_in = NoScale /\ s_out = None

ShowError(d, title, message) == Append(d, [kind |-> "showerror", title |-> title, message |-> message])
ShowInfo(d, title, message) == Append(d, [kind |-> "showinfo", title |-> title, message |-> message])

\* messagebox.showerror(...); return
Abort(l, sp, d, title, message) ==
    /\ pc' = "done"
    /\ loc' = l
    /\ spawned' = sp
    /\ dialogs' = ShowError(d, title, message)
    /\ UNCHANGED <<status_var, files>>

\* on_export enters run_command(cmd) and blocks there
Run(l, sp, d, kind, cmd, at) ==
    /\ pc' = at
    /\ loc' = l
    /\ spawned' = Append(sp, [kind |-> kind, cmd |-> cmd])
    /\ dialogs' = d

\* lines 499: the stream probe is started
ProbeStream(l, sp, d) ==
    /\ Run(l, sp, d, "ffprobe", FfprobeStreamCmd(SrcPath), "probe_stream")
    /\ UNCHANGED <<status_var, files>>

\* lines 477-498, with start_s and end_s set in l
CheckRangeAndSize(l, sp, d) ==
    IF l.end_s # None /\ l.end_s[1] < l.start_s
    THEN Abort(l, sp, d, "Error", "End must be after Start.")
    ELSE LET target_mb == PyFloat(size_mb_var)
         IN IF ~target_mb.ok \/ target_mb.v <= 0
            THEN Abort(l, sp, d, "Error", "Target size must be a positive number.")
            ELSE IF l.end_s = None
                 THEN /\ Run([l EXCEPT !.target_mb = target_mb.v], sp, d,
                             "ffprobe", FfprobeDurationCmd(SrcPath), "probe_clip")
                      /\ UNCHANGED <<status_var, files>>
                 ELSE ProbeStream([l EXCEPT !.target_mb = target_mb.v,
                                            !.clip_seconds = Some(Max(100, l.end_s[1] - l.start_s))],
                                  sp, d)

\* on_export up to its first run_command or its first error; Export may be
\* clicked again once the previous run has returned
ExportBegin ==
    /\ pc \in {"idle", "done"}
    /\ IF ~src_exists
       THEN Abort(LocInit, <<>>, <<>>, "Error", "Please select a valid source MP4 file.")
       ELSE IF ~tools_on_path
       THEN Abort(LocInit, <<>>, <<>>, "Error", "ffmpeg/ffprobe not found on PATH. Install ffmpeg and try again.")
       ELSE LET start_s == IF Strip(start_var) # <<>> THEN parse_time_to_seconds(start_var) ELSE Ok(0)
                end_raw == Strip(end_var)
            IN IF ~start_s.ok
               THEN Abort(LocInit, <<>>, <<>>, "Error", "Invalid Start time format.")
               ELSE IF end_raw # <<>>
               THEN LET end_s == parse_time_to_seconds(end_raw)
                    IN IF ~end_s.ok
                       THEN Abort([LocInit EXCEPT !.start_s = start_s.v], <<>>, <<>>,
                                  "Error", "Invalid End time format.")
                       ELSE CheckRangeAndSize([LocInit EXCEPT !.start_s = start_s.v, !.end_s = Some(end_s.v)],
                                              <<>>, <<>>)
               ELSE /\ Run([LocInit EXCEPT !.start_s = start_s.v], <<>>, <<>>,
                           "ffprobe", FfprobeDurationCmd(SrcPath), "probe_end")
                    /\ UNCHANGED <<status_var, files>>
    /\ UNCHANGED <<pureVars, fieldVars, envVars>>

\* line 475 returns: End was empty and the duration probe has answered
ProbeEndReturn ==
    /\ pc = "probe_end"
    /\ \E res \in DurationOutputs :
          LET video_dur == ffprobe_duration_seconds(res)
              end_s == IF video_dur # None THEN video_dur ELSE None
          IN CheckRangeAndSize([loc EXCEPT !.end_s = end_s], spawned, dialogs)
    /\ UNCHANGED <<pureVars, fieldVars, envVars>>

\* line 491 returns: the second duration probe has answered
ProbeClipReturn ==
    /\ pc = "probe_clip"
    /\ \E res \in DurationOutputs :
          LET video_dur == ffprobe_duration_seconds(res)
          IN IF video_dur = None
             THEN Abort(loc, spawned, dialogs, "Error", "Could not determine video duration.")
             ELSE ProbeStream([loc EXCEPT !.clip_seconds = Some(Max(100, video_dur[1] - loc.start_s))],
                              spawned, dialogs)
    /\ UNCHANGED <<pureVars, fieldVars, envVars>>

\* base_name of line 505
BaseStem(start_s, end_s, target_mb) ==
    SrcPath.stem \o "_trim_" \o ToString(start_s \div 1000) \o "-"
        \o (IF end_s # None THEN ToString(end_s[1] \div 1000) ELSE "end")
        \o "_" \o ToString(target_mb \div 1000) \o "MB"

\* line 499 returns; lines 500-520 plan the encode and start pass 1
ProbeStreamReturn ==
    /\ pc = "probe_stream"
    /\ \E res \in StreamOutputs, ulp_a \in 0..1, ulp_v \in 0..1 :
          LET probed == ffprobe_resolution_fps(res)
              rates == compute_target_bitrates(loc.clip_seconds[1], loc.target_mb, 48, 160, ulp_a, ulp_v)
              video_kbps == rates[1]
              audio_kbps == rates[2]
              scale_filter == choose_scaling_for_bitrate(probed[1], probed[2], probed[3], video_kbps)
              dst == [dir |-> "Downloads/", stem |-> BaseStem(loc.start_s, loc.end_s, loc.target_mb),
                      suffix |-> ".mp4"]
              cmds == build_two_pass_commands(SrcPath, dst, Some(loc.start_s), loc.clip_seconds,
                                              video_kbps, audio_kbps, scale_filter)
              pass1 == cmds[1]
              pass2 == InsertMono(cmds[2], audio_kbps)
          IN /\ status_var' = "Encoding (two-pass)... this may take a moment..."
             /\ Run([loc EXCEPT !.video_kbps = video_kbps, !.audio_kbps = audio_kbps,
                                !.scale_filter = scale_filter, !.dst = Some(dst),
                                !.pass1 = pass1, !.pass2 = pass2],
                    spawned, dialogs, "ffmpeg", pass1, "pass1")
    /\ UNCHANGED <<files, pureVars, fieldVars, envVars>>

\* Pass1Return with the return after the pass-1 error box left out
Pass1Return_NoReturn ==
    /\ pc = "pass1"
    /\ \E code1 \in ExitCodes, written \in SUBSET FfmpegStatsFiles(loc.pass1) :
          /\ code1 = 0 => written = FfmpegStatsFiles(loc.pass1)
          /\ files' = files \cup written
          /\ Run([loc EXCEPT !.code1 = Some(code1)], spawned,
                 IF code1 # 0 THEN ShowError(dialogs, "ffmpeg error (pass 1)", "err1 or out1") ELSE dialogs,
                 "ffmpeg", loc.pass2, "pass2")
    /\ UNCHANGED <<status_var, pureVars, fieldVars, envVars>>

\* line 520 returns: pass 1 has exited.  A successful pass has written its
\* statistics files; a failed one may have written any of them.
Pass1Return ==
    /\ pc = "pass1"
    /\ \E code1 \in ExitCodes, written \in SUBSET FfmpegStatsFiles(loc.pass1) :
          /\ code1 = 0 => written = FfmpegStatsFiles(loc.pass1)
          /\ files' = files \cup written
          /\ IF code1 # 0
             THEN /\ pc' = "done"
                  /\ loc' = [loc EXCEPT !.code1 = Some(code1)]
                  /\ dialogs' = ShowError(dialogs, "ffmpeg error (pass 1)", "err1 or out1")
                  /\ UNCHANGED spawned
             ELSE Run([loc EXCEPT !.code1 = Some(code1)], spawned, dialogs, "ffmpeg", loc.pass2, "pass2")
    /\ UNCHANGED <<status_var, pureVars, fieldVars, envVars>>

\* lines 526-532: the two paths the cleanup unlinks
CleanedPaths(dst) == { PathStr(with_suffix(dst, ext)) : ext \in {".log", ".log.mbtree"} }

\* line 524 returns: pass 2 has exited; lines 525-545 clean up and validate.
\* wrote: the output file is there afterwards; size: its st_size.
Pass2Return ==
    /\ pc = "pass2"
    /\ \E code2 \in ExitCodes, wrote \in BOOLEAN, size \in FinalSizeSamples(TargetBytes(loc.target_mb)) :
          LET dst == loc.dst[1]
              after_run == IF wrote THEN files \cup {FfmpegOutput(loc.pass2)} ELSE files
              cleaned == after_run \ CleanedPaths(dst)
              target_bytes == TargetBytes(loc.target_mb)
          IN /\ files' = cleaned
             /\ pc' = "done"
             /\ UNCHANGED spawned
             /\ IF code2 # 0
                THEN /\ loc' = [loc EXCEPT !.code2 = Some(code2)]
                     /\ dialogs' = ShowError(dialogs, "ffmpeg error (pass 2)", "err2 or out2")
                     /\ UNCHANGED status_var
                ELSE IF PathStr(dst) \in cleaned
                THEN /\ loc' = [loc EXCEPT !.code2 = Some(code2), !.final_size = Some(size)]
                     /\ status_var' = "Done: " \o PathName(dst)
                     /\ dialogs' = IF SizeDeviates(size, target_bytes)
                                   THEN ShowInfo(dialogs, "Note", "Size differs from target by more than ~8%.")
                                   ELSE dialogs
                ELSE /\ loc' = [loc EXCEPT !.code2 = Some(code2)]
                     /\ status_var' = "Done"
                     /\ UNCHANGED dialogs
    /\ UNCHANGED <<pureVars, fieldVars, envVars>>

\* the user types into the Start entry before exporting
EditStart ==
    /\ pc = "idle"
    /\ start_var' \in StartTexts
    /\ UNCHANGED <<src_exists, end_var, size_mb_var, video_duration_s, pureVars, envVars, runVars>>

\* the user types into the End entry
EditEnd ==
    /\ pc = "idle"
    /\ end_var' \in EndTexts
    /\ UNCHANGED <<src_exists, start_var, size_mb_var, video_duration_s, pureVars, envVars, runVars>>

\* the user types into the Target Size entry
EditSize ==
    /\ pc = "idle"
    /\ size_mb_var' \in SizeTexts
    /\ UNCHANGED <<src_exists, start_var, end_var, video_duration_s, pureVars, envVars, runVars>>

\* the user types a path into the source entry: a file that is there or not
EditSource ==
    /\ pc = "idle"
    /\ src_exists' \in BOOLEAN
    /\ UNCHANGED <<start_var, end_var, size_mb_var, video_duration_s, pureVars, envVars, runVars>>

\* on_browse / on_drop: a file is chosen and on_new_source_selected probes it
on_new_source_selected ==
    /\ pc = "idle"
    /\ \E res \in DurationOutputs :
          LET dur == ffprobe_duration_seconds(res)
          IN /\ video_duration_s' = dur
             /\ end_var' = IF dur # None /\ Strip(end_var) = <<>>
                           THEN format_seconds_to_time(dur[1]) ELSE end_var
    /\ src_exists' = TRUE
    /\ status_var' = "Selected file"
    /\ UNCHANGED <<start_var, size_mb_var, pureVars, envVars, pc, loc, spawned, dialogs, files>>

Init ==
    /\ AppConstructed
    /\ tools_on_path \in BOOLEAN
    /\ os_name \in {"nt", "posix"}
    /\ TimeIdle /\ AllocIdle /\ ScaleIdle

Next ==
    \/ EditStart
    \/ EditEnd
    \/ EditSize
    \/ EditSource
    \/ on_new_source_selected
    \/ ExportBegin
    \/ ProbeEndReturn
    \/ ProbeClipReturn
    \/ ProbeStreamReturn
    \/ Pass1Return
    \/ Pass2Return

Spec == Init /\ [][Next]_vars

(***************************************************************************)
(* Inputs of the three pure-function specifications                        *)
(***************************************************************************)
MaxHours == 99

TimeSamples ==
    { h * 3600000 + m * 60000 + ms :
        h \in {0, 1, 9, 10, MaxHours},
        m \in {0, 2, 9, 10, 59},
        ms \in {0, 1, 9, 10, 99, 100, 500, 999, 1000, 3500, 9999, 10000, 59000, 59999} }

ClipSamples == {100, 700, 1000, 60000, 600000, 3600000}
SizeSamples == {1, 100, 500, 1000, 10000, 100000}
AudioBoundSamples == {<<48, 160>>, <<32, 64>>, <<64, 64>>, <<1, 320>>, <<96, 128>>}

WidthSamples == {None, <<0>>, <<160>>, <<161>>, <<200>>, <<641>>, <<1920>>}
HeightSamples == {None, <<0>>, <<120>>, <<160>>, <<161>>, <<361>>, <<1080>>}
FpsSamples == {None, <<<<0, 1>>>>, <<<<15, 2>>>>, <<<<25, 1>>>>, <<<<30, 1>>>>}
KbpsSamples == {0, 1, 100, 101, 150, 300, 1000, 3000}


(***************************************************************************)
(* SpecTime: format a time, then parse the text back                       *)
(***************************************************************************)
InitTime ==
    /\ t_value \in TimeSamples
    /\ t_text = <<>>
    /\ t_parsed = None
    /\ AllocIdle /\ ScaleIdle /\ AppQuiet

FormatTime ==
    /\ t_text = <<>>
    /\ t_text' = format_seconds_to_time(t_value)
    /\ UNCHANGED <<t_value, t_parsed, a_in, a_out, s_in, s_out, appVars>>

ParseTime ==
    /\ t_text # <<>>
    /\ t_parsed = None
    /\ t_parsed' = Some(parse_time_to_seconds(t_text))
    /\ UNCHANGED <<t_value, t_text, a_in, a_out, s_in, s_out, appVars>>

NextTime == FormatTime \/ ParseTime

SpecTime == InitTime /\ [][NextTime]_vars

(***************************************************************************)
(* SpecAlloc: one call of compute_target_bitrates                          *)
(***************************************************************************)
InitAlloc ==
    /\ a_in \in { [clip_ms |-> c, mb_milli |-> m, min_audio_kbps |-> b[1], max_audio_kbps |-> b[2],
                   ulp_a |-> ua, ulp_v |-> uv] :
                    c \in ClipSamples, m \in SizeSamples, b \in AudioBoundSamples,
                    ua \in 0..1, uv \in 0..1 }
    /\ a_out = None
    /\ TimeIdle /\ ScaleIdle /\ AppQuiet

Allocate ==
    /\ a_out = None
    /\ a_out' = Some(compute_target_bitrates(a_in.clip_ms, a_in.mb_milli, a_in.min_audio_kbps,
                                             a_in.max_audio_kbps, a_in.ulp_a, a_in.ulp_v))
    /\ UNCHANGED <<t_value, t_text, t_parsed, a_in, s_in, s_out, appVars>>

NextAlloc == Allocate

SpecAlloc == InitAlloc /\ [][NextAlloc]_vars

(***************************************************************************)
(* SpecScale: choose_scaling_for_bitrate at two bitrates k1 <= k2          *)
(***************************************************************************)
InitScale ==
    /\ s_in \in { [width |-> w, height |-> h, fps |-> f, k1 |-> k1, k2 |-> k2] :
                    w \in WidthSamples, h \in HeightSamples, f \in FpsSamples,
                    k1 \in KbpsSamples, k2 \in KbpsSamples }
    /\ s_in.k1 <= s_in.k2
    /\ s_out = None
    /\ TimeIdle /\ AllocIdle /\ AppQuiet

Advise ==
    /\ s_out = None
    /\ s_out' = Some(<<choose_scaling_dims(s_in.width, s_in.height, s_in.fps, s_in.k1),
                       choose_scaling_dims(s_in.width, s_in.height, s_in.fps, s_in.k2)>>)
    /\ UNCHANGED <<t_value, t_text, t_parsed, a_in, a_out, s_in, appVars>>

NextScale == Advise

SpecScale == InitScale /\ [][NextScale]_vars

(***************************************************************************)
(* Claims about the pure functions                                         *)
(***************************************************************************)

\* C4: for clip_seconds > 0, target_size_mb > 0 and min_audio_kbps <= max_audio_kbps,
\* compute_target_bitrates returns an integer audio_kbps within
\* [min_audio_kbps, max_audio_kbps] and an integer video_kbps >= 100.
C4_AllocationBounds ==
    a_out # None =>
        /\ a_out[1][2] \in Int
        /\ a_out[1][1] \in Int
        /\ a_in.min_audio_kbps <= a_out[1][2]
        /\ a_out[1][2] <= a_in.max_audio_kbps
        /\ a_out[1][1] >= 100

\* the audio guess fell under the floor and the video budget under 100 kbps:
\* both clamps acted
C4_Witness ==
    /\ a_out # None
    /\ FTenth(TargetBits(a_in.mb_milli)).i < BitsAt(a_in.min_audio_kbps, a_in.clip_ms)
    /\ a_out[1][2] = a_in.min_audio_kbps
    /\ a_out[1][1] = 100

\* C5: a scale plan returned by choose_scaling_for_bitrate has an even width
\* and height, both >= 160, and both strictly smaller than the source's.
C5_ScalePlanShape ==
    (s_out # None /\ s_out[1][1] # None) =>
        LET new_w == s_out[1][1][1][1]
            new_h == s_out[1][1][1][2]
        IN /\ new_w % 2 = 0 /\ new_h % 2 = 0
           /\ new_w >= 160 /\ new_h >= 160
           /\ new_w < s_in.width[1] /\ new_h < s_in.height[1]

\* 1920x1080 at 30 fps and 300 kbps is scaled to 544x306
C5_Witness ==
    /\ s_out # None
    /\ s_in.width = <<1920>> /\ s_in.height = <<1080>> /\ s_in.fps = <<<<30, 1>>>> /\ s_in.k1 = 300
    /\ s_out[1][1] = <<<<544, 306>>>>

\* the resolution a call leaves the video at: the plan, or the source's when absent
ResultW(plan) == IF plan = None THEN s_in.width[1] ELSE plan[1][1]
ResultH(plan) == IF plan = None THEN s_in.height[1] ELSE plan[1][2]

\* C6: for a fixed source and k1 <= k2 the resolution chosen at k1 is no
\* larger, in width and in height, than the one chosen at k2.
C6_DownscaleMonotone ==
    (s_out # None /\ s_in.width # None /\ s_in.height # None /\ s_in.fps # None /\ s_in.k1 <= s_in.k2) =>
        /\ ResultW(s_out[1][1]) <= ResultW(s_out[1][2])
        /\ ResultH(s_out[1][1]) <= ResultH(s_out[1][2])

\* two different plans, the one at the lower bitrate held at the 160 floor
C6_Witness ==
    /\ s_out # None
    /\ s_in.k1 < s_in.k2
    /\ s_out[1][1] # None /\ s_out[1][2] # None
    /\ s_out[1][1][1][2] = 160
    /\ s_out[1][1][1][1] < s_out[1][2][1][1]

\* C7: parse_time_to_seconds(format_seconds_to_time(s)) is within 0.001 s of s
\* for s on the millisecond grid, in the MM:SS.mmm and the HH:MM:SS.mmm form.
C7_TimeRoundTrip ==
    t_parsed # None =>
        /\ t_parsed[1].ok
        /\ Abs(t_parsed[1].v - t_value) <= 1

\* 3723.5 s is written 01:02:03.500 and read back
C7_Witness ==
    /\ t_value = 3723500
    /\ t_text = <<"0", "1", ":", "0", "2", ":", "0", "3", ".", "5", "0", "0">>
    /\ t_parsed # None

\* C10: with the default audio bounds, when neither video floor is triggered,
\* (video_kbps + audio_kbps) * 1000 * clip_seconds <= target_bits.
C10_PlanWithinTarget ==
    (/\ a_out # None
     /\ a_in.min_audio_kbps = 48 /\ a_in.max_audio_kbps = 160
     /\ TargetBits(a_in.mb_milli).i - BitsAt(a_out[1][2], a_in.clip_ms) >= 1000 * 1000
     /\ a_out[1][1] > 100) =>
        BitsAt(a_out[1][1], a_in.clip_ms) + BitsAt(a_out[1][2], a_in.clip_ms) <= TargetBits(a_in.mb_milli).i

\* 60 s and 10 MB give 1233 kbps of video and 137 kbps of audio
C10_Witness ==
    /\ a_out # None
    /\ a_in.clip_ms = 60000 /\ a_in.mb_milli = 10000
    /\ a_in.min_audio_kbps = 48 /\ a_in.max_audio_kbps = 160
    /\ a_out[1] = <<1233, 137>>

(***************************************************************************)
(* Claims about on_export                                                  *)
(***************************************************************************)
\* the current run has handed pass n to run_command
PassSpawned(n) ==
    \E i \in 1..Len(spawned) : spawned[i].kind = "ffmpeg" /\ OptionValue(spawned[i].cmd, "-pass") = n

ErrorShown == \E i \in 1..Len(dialogs) : dialogs[i].kind = "showerror"
AdvisoryShown == \E i \in 1..Len(dialogs) : dialogs[i].kind = "showinfo"

\* the outcome of a run that has returned
Failed == pc = "done" /\ ErrorShown
Succeeded == pc = "done" /\ ~ErrorShown

\* an argument list carries the single-channel downmix
HasMono(cmd) == \E i \in 1..Len(cmd) - 1 : cmd[i] = "-ac" /\ cmd[i + 1] = "1"

\* C1: pass 2 is invoked only after pass 1 has exited with code 0; when pass 1
\* exits with another code the run ends Failed and pass 2 is not invoked in it.
C1_Pass2OnlyAfterPass1Success ==
    /\ PassSpawned("2") =>
          /\ loc.code1 = Some(0)
          /\ \E i, j \in 1..Len(spawned) :
                /\ i < j
                /\ spawned[i].cmd = loc.pass1
                /\ spawned[j].cmd = loc.pass2
    /\ (loc.code1 # None /\ loc.code1 # Some(0)) =>
          /\ Failed
          /\ ~PassSpawned("2")

\* pass 1 has exited with code 1 and the run has returned
C1_Witness ==
    /\ pc = "done"
    /\ PassSpawned("1")
    /\ loc.code1 = Some(1)

\* C2: in every terminal state reached after pass 2 was invoked, none of the
\* statistics files the passes wrote under the -passlogfile path is on disk.
C2_StatsFilesDeleted ==
    (pc = "done" /\ PassSpawned("2")) => FfmpegStatsFiles(loc.pass2) \cap files = {}

\* C3: when pass 2 exits with code 0 the outcome is Succeeded, and the advisory
\* is raised iff |final_size - target_bytes| / max(target_bytes, 1) > 0.08.
C3_SuccessAndAdvisory ==
    (pc = "done" /\ loc.code2 = Some(0)) =>
        /\ Succeeded
        /\ AdvisoryShown <=>
              (/\ loc.final_size # None
               /\ 25 * Abs(loc.final_size[1] - TargetBytes(loc.target_mb))
                     > 2 * Max(TargetBytes(loc.target_mb), 1))

\* a 25 MB target met exactly 8% over: success without the advisory
C3_Witness ==
    /\ pc = "done"
    /\ loc.code2 = Some(0)
    /\ loc.target_mb = 25000
    /\ loc.final_size = Some(28311552)
    /\ Succeeded
    /\ ~AdvisoryShown

InputErrorMessages ==
    { "Please select a valid source MP4 file.", "Invalid Start time format.",
      "Invalid End time format.", "End must be after Start.",
      "Target size must be a positive number." }

\* C8: every input error is reported before any external process has been
\* spawned in the run, whatever the fields hold.
C8_InputErrorsBeforeSpawn ==
    (pc = "done" /\ \E i \in 1..Len(dialogs) : dialogs[i].message \in InputErrorMessages) =>
        spawned = <<>>

\* C9 as stated: -ac 1 is in both executed argument lists when audio_kbps <= 64
\* and in neither when audio_kbps > 64.
C9_MonoInBothPasses ==
    \A i \in 1..Len(spawned) :
        spawned[i].kind = "ffmpeg" => (HasMono(spawned[i].cmd) <=> loc.audio_kbps <= 64)

\* C9 amended: the pass-2 list carries -ac 1, right before the output path,
\* exactly when audio_kbps <= 64; the pass-1 list never carries it.
C9_MonoInPass2Only ==
    \A i \in 1..Len(spawned) :
        spawned[i].kind = "ffmpeg" =>
            LET cmd == spawned[i].cmd
            IN IF OptionValue(cmd, "-pass") = "2"
               THEN /\ HasMono(cmd) <=> loc.audio_kbps <= 64
                    /\ HasMono(cmd) => (cmd[Len(cmd) - 2] = "-ac" /\ cmd[Len(cmd) - 1] = "1")
                    /\ cmd[Len(cmd)] = PathStr(loc.dst[1])
               ELSE ~HasMono(cmd)

\* both passes have run at 64 kbps of audio, pass 2 with the downmix
C9_Witness ==
    /\ PassSpawned("1") /\ PassSpawned("2")
    /\ loc.audio_kbps = 64
    /\ HasMono(spawned[Len(spawned)].cmd)

\* an argument list carries an option
HasOption(cmd, opt) == \E i \in 1..Len(cmd) : cmd[i] = opt

\* C11 as stated: an executed transcoder list carries -ss only when the start
\* is > 0 and -t only when the clip duration is known.
C11_RangeArgsOnlyWhenSet ==
    \A i \in 1..Len(spawned) :
        spawned[i].kind = "ffmpeg" =>
            /\ HasOption(spawned[i].cmd, "-ss") => loc.start_s > 0
            /\ HasOption(spawned[i].cmd, "-t") => loc.clip_seconds # None

\* C11 amended: every executed transcoder list carries, right after "ffmpeg -y",
\* -ss with the start and -t with the clip duration, both to three decimals,
\* whatever the start is; for a start of 0 that is -ss 0.000.
C11_RangeArgsAlwaysCarried ==
    \A i \in 1..Len(spawned) :
        spawned[i].kind = "ffmpeg" =>
            LET cmd == spawned[i].cmd
            IN /\ loc.clip_seconds # None
               /\ SubSeq(cmd, 1, 6) = <<"ffmpeg", "-y", "-ss", Fmt3f(loc.start_s),
                                        "-t", Fmt3f(loc.clip_seconds[1])>>
               /\ cmd[7] = "-i"
               /\ loc.start_s = 0 => OptionValue(cmd, "-ss") = "0.000"

\* both passes have run from a start of 0 with -ss 0.000 and ten seconds of -t
C11_Witness ==
    /\ PassSpawned("1") /\ PassSpawned("2")
    /\ loc.start_s = 0
    /\ \A i \in 1..Len(spawned) :
          spawned[i].kind = "ffmpeg" =>
              /\ OptionValue(spawned[i].cmd, "-ss") = "0.000"
              /\ OptionValue(spawned[i].cmd, "-t") = "10.000"

\* audio_bits_guess of the call in a_in
GuessOfCall ==
    FMax(FMin(FTenth(TargetBits(a_in.mb_milli)), BitsAt(a_in.max_audio_kbps, a_in.clip_ms)),
         BitsAt(a_in.min_audio_kbps, a_in.clip_ms))

\* video_bits_available of the call in a_in, for a given audio_kbps
VideoBitsOfCall(audio_kbps) ==
    FMax(FSub(TargetBits(a_in.mb_milli), BitsAt(audio_kbps, a_in.clip_ms)), 1000 * 1000)

\* C12 as stated: the result equals the reference allocator that rounds to the
\* nearest integer at both steps. Where only the fraction of the bit count or a
\* tie decides the rounding, either neighbour is accepted.
C12_EqualsRoundingAllocator ==
    LET Rounded(x, d) ==
            LET q == x.i \div d
                r == x.i % d
            IN IF 2 * r + 2 <= d THEN {q}
               ELSE IF 2 * r > d THEN {q + 1}
               ELSE IF 2 * r = d THEN (IF x.f THEN {q + 1} ELSE {q, q + 1})
               ELSE IF x.f THEN {q, q + 1} ELSE {q}
        RefAudio == { Max(Min(q, a_in.max_audio_kbps), a_in.min_audio_kbps) :
                        q \in Rounded(GuessOfCall, a_in.clip_ms) }
        RefVideo(audio_kbps) ==
            { Max(q, 100) : q \in Rounded(VideoBitsOfCall(audio_kbps), a_in.clip_ms) }
    IN a_out # None =>
           \E ra \in RefAudio : \E rv \in RefVideo(ra) : a_out[1] = <<rv, ra>>

\* q is int(x / d): q <= x / d < q + 1, or x / d = q + 1 exactly and the
\* float division landed one ulp below it
IsTruncation(q, x, d, ulp) ==
    IF ~x.f /\ x.i % d = 0 /\ ulp = 1
    THEN (q + 1) * d = x.i
    ELSE q * d <= x.i /\ x.i < (q + 1) * d

\* C12 amended: audio_kbps = clamp(int(audio_bits_guess / 1000 / clip_seconds),
\* min_audio_kbps, max_audio_kbps) and video_kbps =
\* max(int(video_bits_available / 1000 / clip_seconds), 100): truncation at both steps.
C12_EqualsTruncatingAllocator ==
    a_out # None =>
        LET video_kbps == a_out[1][1]
            audio_kbps == a_out[1][2]
            vb == VideoBitsOfCall(audio_kbps)
        IN /\ \E q \in (a_in.min_audio_kbps - 1)..a_in.max_audio_kbps :
                 /\ IsTruncation(q, GuessOfCall, a_in.clip_ms, a_in.ulp_a)
                 /\ audio_kbps = Max(Min(q, a_in.max_audio_kbps), a_in.min_audio_kbps)
           /\ IF video_kbps > 100
              THEN IsTruncation(video_kbps, vb, a_in.clip_ms, a_in.ulp_v)
              ELSE video_kbps = 100 /\ vb.i < 101 * a_in.clip_ms

\* 1 s and 1 MB: 8060.8 kbps of video are truncated to 8060, not rounded to 8061
C12_Witness ==
    /\ a_out # None
    /\ a_in.clip_ms = 1000 /\ a_in.mb_milli = 1000
    /\ a_in.min_audio_kbps = 48 /\ a_in.max_audio_kbps = 160
    /\ a_out[1] = <<8060, 160>>

\* C13 as stated: when pass 1 exits non-zero, no statistics file of the run is
\* on disk once on_export has ended in the failed state.
C13_NoStatsAfterPass1Failure ==
    (pc = "done" /\ loc.code1 # None /\ loc.code1 # Some(0)) =>
        FfmpegStatsFiles(loc.pass1) \cap files = {}

====
